---- MODULE Spec2Model ----
(***************************************************************************)
(* Model of scripts/build.py: the icon loader, the icon normalizer, the    *)
(* sprite assembler, the sprite encoder with its codec fallback and the    *)
(* position/colour binder.                                                 *)
(*                                                                         *)
(* Strings are sequences of character codes, so that Python's              *)
(* lexicographic str ordering and str.startswith are computed, not         *)
(* assumed.  An Optional value is the empty sequence (None) or a           *)
(* one-element sequence.  A dict that is iterated is a sequence of         *)
(* [key, val] entries in insertion order.                                  *)
(***************************************************************************)
EXTENDS Integers, Sequences, FiniteSets, TLC

VARIABLES
    pc,               \* position of main(): start, hostnames, loaded, built, done, failed
    run,              \* 1: main's own run, 2: the same hostname set in another order
    sites,            \* list[Site] returned by load_sites
    files,            \* the icon directory: path -> file content
    hostnames,        \* the list handed to load_icons_by_hostnames
    icons,            \* dict returned by load_icons_by_hostnames
    enc,              \* what save_sprite_to_data_uri did (attempts, result)
    sprite,           \* the canvas handed to the encoder
    sprite_data_uri,  \* main's sprite_data_uri
    bg_size_css,      \* main's bg_size_css
    positions,        \* PositionMap
    colors,           \* ColorMap
    sites_with_icons, \* result of attach_icon_data_to_sites
    first,            \* PositionMap and ColorMap of run 1, kept for comparison
    err,              \* which stage let an exception escape: none, loader, encoder
    normIn,           \* size of the image given to normalize_icon_to_rgb_white_bg
    normOut           \* its locals nw, nh, x, y and the size of the returned image

vars == <<pc, run, sites, files, hostnames, icons, enc, sprite, sprite_data_uri,
          bg_size_css, positions, colors, sites_with_icons, first, err,
          normIn, normOut>>

pipeVars == <<pc, run, sites, files, hostnames, icons, enc, sprite, sprite_data_uri,
              bg_size_css, positions, colors, sites_with_icons, first, err>>

normVars == <<normIn, normOut>>

-----------------------------------------------------------------------------
(* Program constants *)

ICON_SIZE == 24

SPRITE_COLS == 12

(* Bounds *)

NumHosts == 2

MaxSites == 2

NumBuildHosts == 13

MaxDim == 80

-----------------------------------------------------------------------------
(* Basic values *)

None == <<>>

Some(v) == <<v>>

Range(s) == {s[i] : i \in 1..Len(s)}

Max(a, b) == IF a >= b THEN a ELSE b

EmptyMap == [k \in {} |-> None]

\* "www."
WWW == <<119, 119, 119, 46>>

\* ".png"
DotPng == <<46, 112, 110, 103>>

\* The hostnames of the model: "a", "www.a", "b", "www.b", ...
Host(i) ==
    IF i % 2 = 1 THEN <<96 + (i + 1) \div 2>> ELSE WWW \o <<96 + i \div 2>>

Hosts == {Host(i) : i \in 1..NumHosts}

\* Python's str < str: code point by code point, a proper prefix sorts first.
RECURSIVE LexLess(_, _)
LexLess(a, b) ==
    IF a = <<>> THEN b # <<>>
    ELSE IF b = <<>> THEN FALSE
    ELSE IF a[1] < b[1] THEN TRUE
    ELSE IF a[1] > b[1] THEN FALSE
    ELSE LexLess(Tail(a), Tail(b))

RECURSIVE InsertSorted(_, _)
InsertSorted(s, x) ==
    IF s = <<>> THEN <<x>>
    ELSE IF LexLess(x, s[1]) THEN <<x>> \o s
    ELSE <<s[1]>> \o InsertSorted(Tail(s), x)

\* sorted(list of str)
RECURSIVE PySorted(_)
PySorted(s) ==
    IF s = <<>> THEN <<>> ELSE InsertSorted(PySorted(Tail(s)), s[1])

\* sorted(set of str)
RECURSIVE PySortedSet(_)
PySortedSet(S) ==
    IF S = {} THEN <<>>
    ELSE LET m == CHOOSE x \in S : \A y \in S : x = y \/ LexLess(x, y)
         IN  <<m>> \o PySortedSet(S \ {m})

Perms(S) ==
    {p \in [1..Cardinality(S) -> S] : \A i, j \in 1..Cardinality(S) : p[i] = p[j] => i = j}

-----------------------------------------------------------------------------
(* dict, insertion ordered *)

DictKeys(d) == [i \in 1..Len(d) |-> d[i].key]

DictHas(d, k) == \E i \in 1..Len(d) : d[i].key = k

DictGet(d, k) == (CHOOSE e \in Range(d) : e.key = k).val

DictSet(d, k, v) ==
    IF DictHas(d, k)
    THEN [i \in 1..Len(d) |-> IF d[i].key = k THEN [key |-> k, val |-> v] ELSE d[i]]
    ELSE Append(d, [key |-> k, val |-> v])

-----------------------------------------------------------------------------
(* Site, _hostname, _strip_www *)

\* A URL is modelled by what urlparse makes of it: its hostname, or None.
Url(h) == [hostname |-> h]

NewSite(url) == [url |-> url, icon_x |-> None, icon_y |-> None, icon_color |-> None]

\* urlparse(url).hostname or ""
_hostname(url) == IF url.hostname = None THEN <<>> ELSE url.hostname[1]

StartsWith(s, p) == Len(s) >= Len(p) /\ SubSeq(s, 1, Len(p)) = p

\* host[4:] if host.startswith("www.") else host
_strip_www(host) ==
    IF StartsWith(host, WWW) THEN SubSeq(host, 5, Len(host)) ELSE host

-----------------------------------------------------------------------------
(* Images and icon files *)

\* What Pillow holds of an image: its mode, its size, and "ink": the mean
\* (r, g, b) of the pixels that are neither near-white nor near-black, or
\* None when there is no such pixel.
Img(mode, w, h, ink) == [mode |-> mode, size |-> <<w, h>>, ink |-> ink]

\* Image.new("RGB", (w, h), (255, 255, 255))
WhiteImage(w, h) == Img("RGB", w, h, None)

\* Contents an icon file can have: no file, a file Image.open rejects, a
\* file whose pixel data fails to decode, or a decodable PNG.
FileKinds ==
    { [kind |-> "absent"],
      [kind |-> "bad_header"],
      [kind |-> "truncated"],
      [kind |-> "image", img |-> Img("RGBA", 48, 16, Some(<<200, 100, 0>>))],
      [kind |-> "image", img |-> Img("P", 16, 16, None)] }

\* ICONS_DIR / f"{cand}.png"
IconPath(cand) == cand \o DotPng

\* fp.exists()
Exists(fp, fs) == fp \in DOMAIN fs /\ fs[fp].kind # "absent"

-----------------------------------------------------------------------------
(* normalize_icon_to_rgb_white_bg *)

\* scale = min(ICON_SIZE / w, ICON_SIZE / h), kept as the fraction <<num, den>>.
Scale(w, h) ==
    IF ICON_SIZE * h <= ICON_SIZE * w THEN <<ICON_SIZE, w>> ELSE <<ICON_SIZE, h>>

RECURSIVE OddPart(_)
OddPart(m) == IF m % 2 = 0 THEN OddPart(m \div 2) ELSE m

\* Whether the double division num / den is exact (den is 2^k or 3 * 2^k
\* for num = 24).
ExactDouble(sc) == (sc[1] * 1024) % OddPart(sc[2]) = 0

\* int(round(d * scale)): the values the double computation can give.  Away
\* from a tie the nearest integer; on an exact tie round() goes to the even
\* neighbour; when scale is an inexact double the product can fall on either
\* side of the tie.
RoundScaled(d, sc) ==
    LET num == d * sc[1]
        q   == num \div sc[2]
        r   == num % sc[2]
    IN  IF 2 * r < sc[2] THEN {q}
        ELSE IF 2 * r > sc[2] THEN {q + 1}
        ELSE IF ExactDouble(sc) THEN {IF q % 2 = 0 THEN q ELSE q + 1}
        ELSE {q, q + 1}

AtLeastOneDropped(v) == v

\* max(1, ...)
AtLeastOne(v) == Max(1, v)

\* Lines 107-114: scale, nw, nh, x, y.
NormalizeGeometry(w, h) ==
    { [nw |-> AtLeastOne(rw), nh |-> AtLeastOne(rh),
       x  |-> (ICON_SIZE - AtLeastOne(rw)) \div 2,
       y  |-> (ICON_SIZE - AtLeastOne(rh)) \div 2]
      : rw \in RoundScaled(w, Scale(w, h)), rh \in RoundScaled(h, Scale(w, h)) }

\* The returned image: always the ICON_SIZE canvas, converted to RGB.
normalize_icon_to_rgb_white_bg(img) ==
    IF img.size[1] <= 0 \/ img.size[2] <= 0
    THEN WhiteImage(ICON_SIZE, ICON_SIZE)
    ELSE Img("RGB", ICON_SIZE, ICON_SIZE, img.ink)

-----------------------------------------------------------------------------
(* extract_dominant_color *)

HexDigit(d) == IF d < 10 THEN 48 + d ELSE 87 + d

\* f"{v:02x}"
Hex2(v) == <<HexDigit(v \div 16), HexDigit(v % 16)>>

\* "#f3f4f6"
NeutralColor == <<35>> \o Hex2(243) \o Hex2(244) \o Hex2(246)

\* int(c + (255 - c) * 0.25)
Pastel(c) == (3 * c + 255) \div 4

extract_dominant_color(img_rgb) ==
    IF img_rgb.ink = None THEN NeutralColor
    ELSE LET p == img_rgb.ink[1]
         IN  <<35>> \o Hex2(Pastel(p[1])) \o Hex2(Pastel(p[2])) \o Hex2(Pastel(p[3]))

-----------------------------------------------------------------------------
(* load_icons_by_hostnames *)

CandidatesAddWww(host) ==
    IF StartsWith(host, WWW) THEN <<host, _strip_www(host)>> ELSE <<host, WWW \o host>>

\* candidates = [host]; append no_www when it differs
Candidates(host) ==
    IF _strip_www(host) # host THEN <<host, _strip_www(host)>> ELSE <<host>>

\* The for/break over candidates: chosen_host, or None.
RECURSIVE FirstExisting(_, _)
FirstExisting(cands, fs) ==
    IF cands = <<>> THEN None
    ELSE IF Exists(IconPath(cands[1]), fs) THEN Some(cands[1])
    ELSE FirstExisting(Tail(cands), fs)

\* The loader's state while it runs: the dict so far, and whether an
\* exception has left the function.
LoaderState(d, raised) == [icons |-> d, raised |-> raised]

OnLoadErrorAbort(st) == LoaderState(st.icons, TRUE)

\* except Exception: continue
OnLoadError(st) == st

\* The try block: Image.open raises on a bad header, img.convert inside the
\* normalizer raises on truncated pixel data.
TryLoad(st, chosen_host, fs) ==
    LET f == fs[IconPath(chosen_host)]
    IN  IF f.kind \in {"bad_header", "truncated"} THEN OnLoadError(st)
        ELSE LET icon_rgb == normalize_icon_to_rgb_white_bg(f.img)
                 color    == extract_dominant_color(icon_rgb)
             IN  LoaderState(DictSet(st.icons, chosen_host, <<icon_rgb, color>>), FALSE)

\* One iteration of "for host in hostnames".
LoadOne(st, host, fs) ==
    IF host = <<>> THEN st
    ELSE LET chosen == FirstExisting(Candidates(host), fs)
         IN  IF chosen = None THEN st ELSE TryLoad(st, chosen[1], fs)

RECURSIVE LoadFrom(_, _, _)
LoadFrom(st, hs, fs) ==
    IF hs = <<>> \/ st.raised THEN st
    ELSE LoadFrom(LoadOne(st, hs[1], fs), Tail(hs), fs)

load_icons_by_hostnames(hs, fs) == LoadFrom(LoaderState(<<>>, FALSE), hs, fs)

-----------------------------------------------------------------------------
(* save_sprite_to_data_uri *)

\* What the codec writes for a canvas: its magic number ("RIFF" for WebP,
\* the SOI/APP0 marker for JPEG) followed by the canvas size.
CodecBytes(format, img) ==
    LET dims == <<img.size[1] \div 256, img.size[1] % 256,
                  img.size[2] \div 256, img.size[2] % 256>>
    IN  IF format = "WEBP" THEN <<82, 73, 70, 70>> \o dims
        ELSE <<255, 216, 255, 224>> \o dims

\* How an Image.save call can end: it writes everything; the format is not
\* in this Pillow build and it raises before writing; the encoder raises
\* after part of the output has reached the buffer.
SaveOutcomes == {"ok", "unsupported", "fails_midway"}

\* Image.save(buf, format=...) on a BytesIO.
ImageSave(buf, format, img, outcome) ==
    LET bytes == CodecBytes(format, img)
    IN  CASE outcome = "ok"           -> [raised |-> FALSE, buf |-> buf \o bytes]
          [] outcome = "unsupported"  -> [raised |-> TRUE,  buf |-> buf]
          [] outcome = "fails_midway" -> [raised |-> TRUE,  buf |-> buf \o SubSeq(bytes, 1, 5)]

B64Char(v) ==
    IF v < 26 THEN 65 + v
    ELSE IF v < 52 THEN 97 + (v - 26)
    ELSE IF v < 62 THEN 48 + (v - 52)
    ELSE IF v = 62 THEN 43 ELSE 47

\* base64.b64encode(bytes).decode("ascii")
RECURSIVE B64Encode(_)
B64Encode(bs) ==
    IF bs = <<>> THEN <<>>
    ELSE LET n  == Len(bs)
             b2 == IF n >= 2 THEN bs[2] ELSE 0
             b3 == IF n >= 3 THEN bs[3] ELSE 0
             v  == bs[1] * 65536 + b2 * 256 + b3
         IN  << B64Char(v \div 262144),
                B64Char((v \div 4096) % 64),
                IF n >= 2 THEN B64Char((v \div 64) % 64) ELSE 61,
                IF n >= 3 THEN B64Char(v % 64) ELSE 61 >>
             \o (IF n > 3 THEN B64Encode(SubSeq(bs, 4, n)) ELSE <<>>)

\* f"data:{mime};base64,{b64}"
DataUri(mime, b64) ==
    [scheme |-> "data:", mime |-> mime, encoding |-> ";base64,", payload |-> b64]

\* One entry of the encoder's trace: the format tried, the size of the canvas
\* it was given, whether the save raised, and the buffer afterwards.
Attempt(format, img, res) ==
    [format |-> format, size |-> img.size, raised |-> res.raised, buf |-> res.buf]

FallbackBufferReused(buf) == buf

\* buf = BytesIO() in the except branch
FallbackBuffer(buf) == <<>>

\* env: the outcome of each codec's save in this call.
save_sprite_to_data_uri(sprite_rgb, env) ==
    LET w == ImageSave(<<>>, "WEBP", sprite_rgb, env.webp)
    IN  IF ~w.raised
        THEN [raised   |-> FALSE,
              data_uri |-> Some(DataUri("image/webp", B64Encode(w.buf))),
              mime     |-> Some("image/webp"),
              attempts |-> <<Attempt("WEBP", sprite_rgb, w)>>]
        ELSE LET j == ImageSave(FallbackBuffer(w.buf), "JPEG", sprite_rgb, env.jpeg)
             IN  IF ~j.raised
                 THEN [raised   |-> FALSE,
                       data_uri |-> Some(DataUri("image/jpeg", B64Encode(j.buf))),
                       mime     |-> Some("image/jpeg"),
                       attempts |-> <<Attempt("WEBP", sprite_rgb, w),
                                      Attempt("JPEG", sprite_rgb, j)>>]
                 ELSE [raised   |-> TRUE,
                       data_uri |-> None,
                       mime     |-> None,
                       attempts |-> <<Attempt("WEBP", sprite_rgb, w),
                                      Attempt("JPEG", sprite_rgb, j)>>]

-----------------------------------------------------------------------------
(* build_sprite_and_positions *)

\* f"{w}px {h}px"
PxSize(w, h) == [w |-> w, h |-> h, unit |-> "px"]

HostsInInsertionOrder(d) == DictKeys(d)

\* hosts = sorted(icons.keys())
SortedHosts(d) == PySorted(DictKeys(d))

SpriteRowsFloor(n) == n \div SPRITE_COLS

\* rows = int(math.ceil(n / cols))
SpriteRows(n) == (n + SPRITE_COLS - 1) \div SPRITE_COLS

CellOfRowZero(idx) == <<(idx % SPRITE_COLS) * ICON_SIZE, 0>>

\* x = (idx % cols) * ICON_SIZE; y = (idx // cols) * ICON_SIZE
CellOf(idx) == <<(idx % SPRITE_COLS) * ICON_SIZE, (idx \div SPRITE_COLS) * ICON_SIZE>>

\* What build_sprite_and_positions holds before it calls the encoder.
Layout(sp, bg, pos, col) ==
    [sprite |-> sp, bg_size |-> bg, positions |-> pos, colors |-> col]

\* Lines 247-265 and 268: the grid.
GridLayout(d) ==
    LET hosts == SortedHosts(d)
        n     == Len(hosts)
        sp    == WhiteImage(SPRITE_COLS * ICON_SIZE, SpriteRows(n) * ICON_SIZE)
    IN  Layout(sp, PxSize(sp.size[1], sp.size[2]),
               [h \in Range(hosts) |-> CellOf((CHOOSE i \in 1..n : hosts[i] = h) - 1)],
               [h \in Range(hosts) |-> DictGet(d, h)[2]])

\* Lines 241-245: no icons, a 1x1 white image.
EmptyLayout == Layout(WhiteImage(1, 1), PxSize(1, 1), EmptyMap, EmptyMap)

LayoutWithoutEmptyCase(d) == GridLayout(d)

\* if not icons: ... else: ...
SpriteLayout(d) == IF d = <<>> THEN EmptyLayout ELSE GridLayout(d)

\* Both branches end in save_sprite_to_data_uri(canvas); an exception of the
\* encoder leaves the function with nothing returned.
build_sprite_and_positions(lay, env) ==
    LET e == save_sprite_to_data_uri(lay.sprite, env)
    IN  [enc |-> e, sprite |-> lay.sprite, bg_size |-> lay.bg_size,
         positions |-> lay.positions, colors |-> lay.colors]

-----------------------------------------------------------------------------
(* attach_icon_data_to_sites *)

LookupExactOnly(host, host2, pos) ==
    IF host \in DOMAIN pos THEN Some(host) ELSE None

\* key = host if host in positions, else host2 if host2 in positions, else None
LookupKey(host, host2, pos) ==
    IF host \in DOMAIN pos THEN Some(host)
    ELSE IF host2 \in DOMAIN pos THEN Some(host2)
    ELSE None

\* colors.get(key)
ColorsGet(col, key) == IF key \in DOMAIN col THEN Some(col[key]) ELSE None

AttachOne(s, pos, col) ==
    LET host  == _hostname(s.url)
        host2 == _strip_www(host)
        key   == LookupKey(host, host2, pos)
    IN  IF key = None THEN s
        ELSE [url        |-> s.url,
              icon_x     |-> Some(pos[key[1]][1]),
              icon_y     |-> Some(pos[key[1]][2]),
              icon_color |-> ColorsGet(col, key[1])]

attach_icon_data_to_sites(ss, pos, col) ==
    [i \in 1..Len(ss) |-> AttachOne(ss[i], pos, col)]

-----------------------------------------------------------------------------
(* main: the pipeline *)

SiteInputs == {NewSite(Url(Some(h))) : h \in Hosts} \cup {NewSite(Url(None))}

IconDirs == [{IconPath(h) : h \in Hosts} -> FileKinds]

CodecEnvs == [webp : SaveOutcomes, jpeg : SaveOutcomes]

Init ==
    /\ pc = "start"
    /\ run = 1
    /\ sites \in UNION {[1..n -> SiteInputs] : n \in 0..MaxSites}
    /\ files \in IconDirs
    /\ hostnames = <<>>
    /\ icons = <<>>
    /\ enc = None
    /\ sprite = None
    /\ sprite_data_uri = None
    /\ bg_size_css = None
    /\ positions = EmptyMap
    /\ colors = EmptyMap
    /\ sites_with_icons = <<>>
    /\ first = None
    /\ err = "none"
    /\ normIn = None
    /\ normOut = None

\* hostnames = sorted({h for h in (_hostname(s.url) for s in sites) if h})
MainHostnames ==
    /\ pc = "start"
    /\ hostnames' = PySortedSet({_hostname(sites[i].url) : i \in 1..Len(sites)} \ {<<>>})
    /\ pc' = "hostnames"
    /\ UNCHANGED <<run, sites, files, icons, enc, sprite, sprite_data_uri, bg_size_css,
                   positions, colors, sites_with_icons, first, err, normVars>>

\* icons = load_icons_by_hostnames(hostnames)
Load ==
    /\ pc = "hostnames"
    /\ LET st == load_icons_by_hostnames(hostnames, files)
       IN  /\ icons' = st.icons
           /\ pc' = IF st.raised THEN "failed" ELSE "loaded"
           /\ err' = IF st.raised THEN "loader" ELSE err
    /\ UNCHANGED <<run, sites, files, hostnames, enc, sprite, sprite_data_uri, bg_size_css,
                   positions, colors, sites_with_icons, first, normVars>>

\* sprite_data_uri, bg_size_css, positions, colors = build_sprite_and_positions(icons)
Build ==
    /\ pc = "loaded"
    /\ LET lay == SpriteLayout(icons)
       IN  \E env \in CodecEnvs :
          LET r == build_sprite_and_positions(lay, env)
          IN  /\ enc' = r.enc
              /\ sprite' = r.sprite
              /\ IF r.enc.raised
                 THEN /\ pc' = "failed"
                      /\ err' = "encoder"
                      /\ UNCHANGED <<sprite_data_uri, bg_size_css, positions, colors>>
                 ELSE /\ pc' = "built"
                      /\ err' = err
                      /\ sprite_data_uri' = r.enc.data_uri
                      /\ bg_size_css' = r.bg_size
                      /\ positions' = r.positions
                      /\ colors' = r.colors
    /\ UNCHANGED <<run, sites, files, hostnames, icons, sites_with_icons, first, normVars>>

\* sites_with_icons = attach_icon_data_to_sites(sites, positions, colors)
Attach ==
    /\ pc = "built"
    /\ sites_with_icons' = attach_icon_data_to_sites(sites, positions, colors)
    /\ pc' = "done"
    /\ UNCHANGED <<run, sites, files, hostnames, icons, enc, sprite, sprite_data_uri,
                   bg_size_css, positions, colors, first, err, normVars>>

\* A second build over the same sites and icon files, the hostname list given
\* to the loader in any order.
Reorder ==
    /\ pc = "done"
    /\ run = 1
    /\ \E p \in Perms(Range(hostnames)) : hostnames' = p
    /\ run' = 2
    /\ first' = Some([positions |-> positions, colors |-> colors])
    /\ pc' = "hostnames"
    /\ icons' = <<>>
    /\ enc' = None
    /\ sprite' = None
    /\ sprite_data_uri' = None
    /\ bg_size_css' = None
    /\ positions' = EmptyMap
    /\ colors' = EmptyMap
    /\ sites_with_icons' = <<>>
    /\ UNCHANGED <<sites, files, err, normVars>>

Next == MainHostnames \/ Load \/ Build \/ Attach \/ Reorder

Spec == Init /\ [][Next]_vars

-----------------------------------------------------------------------------
(* build_sprite_and_positions on its own, over any icon mapping *)

\* A loaded icon: (normalized RGB icon, dominant colour).
LoadedIcon == <<WhiteImage(ICON_SIZE, ICON_SIZE), NeutralColor>>

DictOf(keys) == [i \in 1..Len(keys) |-> [key |-> keys[i], val |-> LoadedIcon]]

\* The hosts numbered in I, by ascending number: "a", "www.a", "b", ... is not
\* the lexicographic order.
HostsNumbered(I) ==
    LET F[k \in 0..NumBuildHosts] ==
            IF k = 0 THEN <<>>
            ELSE IF k \in I THEN Append(F[k - 1], Host(k)) ELSE F[k - 1]
    IN  F[NumBuildHosts]

IconDicts == {DictOf(HostsNumbered(I)) : I \in SUBSET (1..NumBuildHosts)}

InitBuild ==
    /\ pc = "loaded"
    /\ run = 2
    /\ sites = <<>>
    /\ files = EmptyMap
    /\ hostnames = <<>>
    /\ icons \in IconDicts
    /\ enc = None
    /\ sprite = None
    /\ sprite_data_uri = None
    /\ bg_size_css = None
    /\ positions = EmptyMap
    /\ colors = EmptyMap
    /\ sites_with_icons = <<>>
    /\ first = None
    /\ err = "none"
    /\ normIn = None
    /\ normOut = None

NextBuild == Build

SpecBuild == InitBuild /\ [][NextBuild]_vars

-----------------------------------------------------------------------------
(* normalize_icon_to_rgb_white_bg on its own, over any image size *)

InitNorm ==
    /\ pc = "normalize"
    /\ run = 1
    /\ sites = <<>>
    /\ files = EmptyMap
    /\ hostnames = <<>>
    /\ icons = <<>>
    /\ enc = None
    /\ sprite = None
    /\ sprite_data_uri = None
    /\ bg_size_css = None
    /\ positions = EmptyMap
    /\ colors = EmptyMap
    /\ sites_with_icons = <<>>
    /\ first = None
    /\ err = "none"
    /\ normIn = None
    /\ normOut = None

Normalize ==
    /\ pc = "normalize"
    /\ normIn = None
    /\ \E w \in 0..MaxDim, h \in 0..MaxDim :
          /\ normIn' = <<w, h>>
          /\ LET out == normalize_icon_to_rgb_white_bg(Img("RGBA", w, h, None))
             IN  IF w <= 0 \/ h <= 0
                 THEN normOut' = [geom |-> None, size |-> out.size]
                 ELSE \E g \in NormalizeGeometry(w, h) :
                         normOut' = [geom |-> Some(g), size |-> out.size]
    /\ UNCHANGED pipeVars

NextNorm == Normalize

SpecNorm == InitNorm /\ [][NextNorm]_vars

-----------------------------------------------------------------------------
(* Vocabulary of the properties *)

Built == pc \in {"built", "done"}

Keys == {icons[i].key : i \in 1..Len(icons)}

\* Number of keys of K that sort before k.
Rank(k, K) == Cardinality({j \in K : LexLess(j, k)})

\* The file <h>.png if it exists, else the file of h without its "www."
\* prefix if h has one and that file exists.
MatchedFile(h) ==
    IF Exists(IconPath(h), files) THEN Some(h)
    ELSE IF StartsWith(h, WWW) /\ Exists(IconPath(SubSeq(h, 5, Len(h))), files)
         THEN Some(SubSeq(h, 5, Len(h)))
    ELSE None

Decodes(c) == files[IconPath(c)].kind = "image"

Resolves(h) == h # <<>> /\ MatchedFile(h) # None /\ Decodes(MatchedFile(h)[1])

MatchedCorrupt(h) == h # <<>> /\ MatchedFile(h) # None /\ ~Decodes(MatchedFile(h)[1])

SiteHost(i) == IF sites[i].url.hostname = None THEN <<>> ELSE sites[i].url.hostname[1]

HasIcon(s) == s.icon_x # None

\* The only file of the icon directory is <c>.png, and it decodes.
OnlyIcon(c) ==
    /\ IconPath(c) \in DOMAIN files
    /\ files[IconPath(c)].kind = "image"
    /\ \A f \in DOMAIN files : f # IconPath(c) => files[f].kind = "absent"

MimeOf(format) == IF format = "WEBP" THEN "image/webp" ELSE "image/jpeg"

B64Val(c) ==
    IF c >= 65 /\ c <= 90 THEN c - 65
    ELSE IF c >= 97 /\ c <= 122 THEN c - 71
    ELSE IF c >= 48 /\ c <= 57 THEN c + 4
    ELSE IF c = 43 THEN 62 ELSE 63

RECURSIVE B64Decode(_)
B64Decode(cs) ==
    IF Len(cs) < 4 THEN <<>>
    ELSE LET v == B64Val(cs[1]) * 262144 + B64Val(cs[2]) * 4096
                  + (IF cs[3] = 61 THEN 0 ELSE B64Val(cs[3]) * 64)
                  + (IF cs[4] = 61 THEN 0 ELSE B64Val(cs[4]))
             bytes == <<v \div 65536, (v \div 256) % 256, v % 256>>
         IN  SubSeq(bytes, 1, IF cs[3] = 61 THEN 1 ELSE IF cs[4] = 61 THEN 2 ELSE 3)
             \o B64Decode(SubSeq(cs, 5, Len(cs)))

-----------------------------------------------------------------------------
(* C1 *)

\* C1: the PositionMap returned by build_sprite_and_positions never gives two
\* distinct hostname keys the same (x, y) offset.
C1_DistinctCells ==
    Built => \A k1, k2 \in DOMAIN positions : k1 # k2 => positions[k1] # positions[k2]

\* A sprite with more icons than one row holds.
C1_Witness == pc = "built" /\ Cardinality(DOMAIN positions) > SPRITE_COLS

(* C2 *)

\* C2: for a non-empty icon mapping with n keys, the key at 0-based index i of
\* the sorted keys gets ((i mod cols) * ICON_SIZE, (i div cols) * ICON_SIZE),
\* the reported size is (cols * ICON_SIZE) by (ceil(n / cols) * ICON_SIZE), and
\* the key that sorts last leaves the offsets of all the others as they are in
\* the build without it.
C2_GridLayout ==
    (pc = "built" /\ icons # <<>>) =>
        LET n    == Cardinality(Keys)
            rows == CHOOSE r \in 1..n : r * SPRITE_COLS >= n /\ (r - 1) * SPRITE_COLS < n
            last == CHOOSE k \in Keys : Rank(k, Keys) = n - 1
            rest == SelectSeq(icons, LAMBDA e : e.key # last)
        IN  /\ DOMAIN positions = Keys
            /\ \A k \in Keys :
                  positions[k] = << (Rank(k, Keys) % SPRITE_COLS) * ICON_SIZE,
                                    (Rank(k, Keys) \div SPRITE_COLS) * ICON_SIZE >>
            /\ bg_size_css = [w |-> SPRITE_COLS * ICON_SIZE, h |-> rows * ICON_SIZE, unit |-> "px"]
            /\ \A k \in Keys \ {last} : SpriteLayout(rest).positions[k] = positions[k]

\* Thirteen icons: the one that sorts last wraps to (0, 24), the sprite is
\* 288px by 48px.
C2_Witness ==
    /\ pc = "built"
    /\ Cardinality(Keys) = SPRITE_COLS + 1
    /\ \E k \in Keys : Rank(k, Keys) = SPRITE_COLS /\ positions[k] = <<0, 24>>
    /\ bg_size_css = [w |-> 288, h |-> 48, unit |-> "px"]

(* C3 *)

\* C3 as stated: after main's pipeline every key of the PositionMap is a
\* member of the hostname list passed to the loader.
C3_KeysAreInputHostnames ==
    Built => DOMAIN positions \subseteq Range(hostnames)

\* C3: after main's pipeline every key of the PositionMap is a member of the
\* hostname list passed to the loader or such a member without its "www."
\* prefix; a hostname with no icon file that exists and decodes is not a key.
C3_KeysAreInputOrStripped ==
    Built =>
        /\ \A k \in DOMAIN positions :
              \E h \in Range(hostnames) :
                 k = h \/ (StartsWith(h, WWW) /\ k = SubSeq(h, 5, Len(h)))
        /\ \A h \in Range(hostnames) : ~Resolves(h) => h \notin DOMAIN positions

\* A key that is only the stripped form of an input hostname, which itself
\* has no entry.
C3_Witness ==
    /\ pc = "built"
    /\ \E h \in Range(hostnames) :
          /\ StartsWith(h, WWW)
          /\ h \notin DOMAIN positions
          /\ SubSeq(h, 5, Len(h)) \in DOMAIN positions
          /\ SubSeq(h, 5, Len(h)) \notin Range(hostnames)

(* C4 *)

\* C4 as stated: with www.<b>.png the only icon file, a site whose host is <b>
\* receives that icon's offset; with <b>.png the only icon file, a site whose
\* host is www.<b> receives that icon's offset.
C4_WwwEitherDirection ==
    pc = "done" =>
        \A i \in 1..Len(sites), b \in Hosts :
            /\ (OnlyIcon(WWW \o b) /\ SiteHost(i) = b) =>
                  /\ (WWW \o b) \in DOMAIN positions
                  /\ sites_with_icons[i].icon_x = Some(positions[WWW \o b][1])
                  /\ sites_with_icons[i].icon_y = Some(positions[WWW \o b][2])
            /\ (OnlyIcon(b) /\ SiteHost(i) = WWW \o b) =>
                  /\ b \in DOMAIN positions
                  /\ sites_with_icons[i].icon_x = Some(positions[b][1])
                  /\ sites_with_icons[i].icon_y = Some(positions[b][2])

\* C4: the www. variant is matched in the stripping direction only: with
\* <b>.png the only icon file, a site whose host is www.<b> receives that
\* icon's offset; with www.<b>.png the only icon file, a site whose host is
\* <b> is left without icon data.
C4_WwwStrippedOnly ==
    pc = "done" =>
        \A i \in 1..Len(sites), b \in Hosts :
            /\ (OnlyIcon(WWW \o b) /\ SiteHost(i) = b) => sites_with_icons[i] = sites[i]
            /\ (OnlyIcon(b) /\ SiteHost(i) = WWW \o b) =>
                  /\ b \in DOMAIN positions
                  /\ sites_with_icons[i].icon_x = Some(positions[b][1])
                  /\ sites_with_icons[i].icon_y = Some(positions[b][2])

\* The only icon file is <b>.png and a site of host www.<b> carries its offset.
C4_Witness ==
    /\ pc = "done"
    /\ \E i \in 1..Len(sites), b \in Hosts :
          OnlyIcon(b) /\ SiteHost(i) = WWW \o b /\ HasIcon(sites_with_icons[i])

(* C5 *)

\* C5: a matched icon file that fails to decode or normalize never makes
\* load_icons_by_hostnames raise; that hostname and the key of the bad file
\* get no entry in the icon mapping or the PositionMap, and every hostname
\* whose matched file decodes has its entry, wherever the bad hostname stands
\* in the list.
C5_BadIconIsSkipped ==
    /\ err # "loader"
    /\ pc \in {"loaded", "built", "done"} =>
          \A h \in Range(hostnames) :
             /\ MatchedCorrupt(h) =>
                   /\ h \notin Keys
                   /\ MatchedFile(h)[1] \notin Keys
                   /\ h \notin DOMAIN positions
                   /\ MatchedFile(h)[1] \notin DOMAIN positions
             /\ Resolves(h) => MatchedFile(h)[1] \in Keys
    /\ Built => DOMAIN positions = Keys

\* The bad hostname comes first in the list and a later one is loaded.
C5_Witness ==
    /\ pc = "loaded"
    /\ \E i, j \in 1..Len(hostnames) :
          /\ i < j
          /\ MatchedCorrupt(hostnames[i])
          /\ Resolves(hostnames[j])
          /\ MatchedFile(hostnames[j])[1] \in Keys

(* C6 *)

\* C6: load_icons_by_hostnames followed by build_sprite_and_positions over the
\* same hostname set, given in another order, produces the PositionMap and the
\* ColorMap of the first run.
C6_OrderIndependent ==
    (run = 2 /\ Built) => first = Some([positions |-> positions, colors |-> colors])

\* The second run was given the hostnames out of sorted order and placed at
\* least two icons.
C6_Witness ==
    /\ run = 2
    /\ pc = "built"
    /\ \E i, j \in 1..Len(hostnames) : i < j /\ LexLess(hostnames[j], hostnames[i])
    /\ Cardinality(DOMAIN positions) >= 2

(* C7 *)

\* C7: save_sprite_to_data_uri tries WebP first and JPEG only after WebP
\* raised; the data URI and the MIME name the codec that succeeded, the
\* payload decodes to that codec's output alone, and when both codecs raise
\* the error leaves the pipeline with no data URI.
C7_CodecFallback ==
    (Built \/ err = "encoder") =>
        LET a    == enc.attempts
            last == a[Len(a)]
        IN  /\ Len(a) \in {1, 2}
            /\ a[1].format = "WEBP"
            /\ a[1].size = sprite.size
            /\ (Len(a) = 2) <=> a[1].raised
            /\ Len(a) = 2 => (a[2].format = "JPEG" /\ a[2].size = sprite.size)
            /\ IF last.raised
               THEN /\ enc.raised
                    /\ enc.data_uri = None
                    /\ enc.mime = None
                    /\ pc = "failed"
                    /\ err = "encoder"
                    /\ sprite_data_uri = None
               ELSE /\ ~enc.raised
                    /\ Built
                    /\ enc.mime = Some(MimeOf(last.format))
                    /\ enc.data_uri[1].mime = MimeOf(last.format)
                    /\ B64Decode(enc.data_uri[1].payload) = CodecBytes(last.format, sprite)
                    /\ sprite_data_uri = enc.data_uri

\* WebP raised after writing part of its output and JPEG then succeeded.
C7_Witness ==
    /\ pc = "built"
    /\ Len(enc.attempts) = 2
    /\ enc.attempts[1].buf # <<>>
    /\ enc.mime = Some("image/jpeg")

(* C8 *)

NoneResolves == \A h \in Range(hostnames) : ~Resolves(h)

\* C8: when no hostname resolves to a decodable icon the PositionMap and the
\* ColorMap are empty, the canvas given to the encoder (WebP, then JPEG if
\* WebP raised) is 1x1, the size is "1px 1px", and the binder leaves every
\* site unchanged.
C8_EmptyIconSet ==
    (Built /\ NoneResolves) =>
        /\ DOMAIN positions = {}
        /\ DOMAIN colors = {}
        /\ sprite.size = <<1, 1>>
        /\ bg_size_css = [w |-> 1, h |-> 1, unit |-> "px"]
        /\ enc.attempts[1].format = "WEBP"
        /\ \A i \in 1..Len(enc.attempts) : enc.attempts[i].size = <<1, 1>>
        /\ enc.attempts[1].raised => (Len(enc.attempts) = 2 /\ enc.attempts[2].format = "JPEG")
        /\ sprite_data_uri # None
        /\ pc = "done" => sites_with_icons = sites

\* Every matched file is corrupt, the 1x1 canvas went through the JPEG
\* fallback, and the binder has run over a non-empty site list.
C8_Witness ==
    /\ pc = "done"
    /\ NoneResolves
    /\ sites # <<>>
    /\ \E h \in Range(hostnames) : MatchedCorrupt(h)
    /\ Len(enc.attempts) = 2

(* C9 *)

\* C9: for every source image of width and height at least 1 the resized
\* dimensions nw and nh lie in 1..ICON_SIZE, the centering offsets are
\* ((ICON_SIZE - nw) // 2, (ICON_SIZE - nh) // 2) and non-negative, the
\* resized image lies inside the canvas, and the returned icon is
\* ICON_SIZE x ICON_SIZE.
C9_NormalizedGeometry ==
    (normIn # None /\ normIn[1] >= 1 /\ normIn[2] >= 1) =>
        LET g == normOut.geom[1]
        IN  /\ g.nw \in 1..ICON_SIZE
            /\ g.nh \in 1..ICON_SIZE
            /\ 2 * g.x \in {ICON_SIZE - g.nw, ICON_SIZE - g.nw - 1}
            /\ 2 * g.y \in {ICON_SIZE - g.nh, ICON_SIZE - g.nh - 1}
            /\ g.x >= 0 /\ g.y >= 0
            /\ g.x + g.nw <= ICON_SIZE
            /\ g.y + g.nh <= ICON_SIZE
            /\ normOut.size = <<ICON_SIZE, ICON_SIZE>>

\* A 48x1 strip: the height would round to zero and is kept at one pixel.
C9_Witness ==
    /\ normIn = <<48, 1>>
    /\ normOut.geom[1].nw = ICON_SIZE
    /\ normOut.geom[1].nh = 1

(* C10 *)

\* C10: the binder sets icon_x/icon_y on a site if and only if the loader
\* resolved that site's own hostname to a file that decoded, and the offset is
\* the PositionMap entry of the key the loader chose for that hostname.
C10_LoaderBinderAgree ==
    pc = "done" =>
        \A i \in 1..Len(sites) :
            /\ HasIcon(sites_with_icons[i]) <=> Resolves(SiteHost(i))
            /\ Resolves(SiteHost(i)) =>
                  /\ MatchedFile(SiteHost(i))[1] \in DOMAIN positions
                  /\ sites_with_icons[i].icon_x = Some(positions[MatchedFile(SiteHost(i))[1]][1])
                  /\ sites_with_icons[i].icon_y = Some(positions[MatchedFile(SiteHost(i))[1]][2])

====
